---- MODULE Spec2Model ----
(***************************************************************************)
(* The SQL fragment compiler of src/core.ts (SQLFragment.compile,          *)
(* SQLFragment.compileExpression, SQLFragment.run).                        *)
(*                                                                         *)
(* A string is a sequence of one-character strings, so that charAt(0),     *)
(* quoting and the decimal rendering of a placeholder number are computed  *)
(* and not assumed.  Every JavaScript value is a record with a field k     *)
(* (its kind); fragments live on a heap and are referred to by identity.   *)
(***************************************************************************)
EXTENDS Integers, Sequences, FiniteSets, TLC

\* ------------------------------------------------------------------ strings

DQ == "\""

\* UTF-16 code units of the characters that occur in names
CharCode(c) ==
  CASE c = DQ  -> 34
    [] c = "$" -> 36
    [] c = "." -> 46
    [] c = "1" -> 49
    [] c = "B" -> 66
    [] c = "a" -> 97
    [] c = "b" -> 98
    [] c = "c" -> 99
    [] c = "d" -> 100
    [] c = "i" -> 105
    [] c = "t" -> 116
    [] c = "u" -> 117
    [] OTHER   -> 127

\* s < t in the order of Array.prototype.sort() without a comparator:
\* by code unit, a proper prefix first
StrLess(s, t) ==
  \/ /\ Len(s) < Len(t)
     /\ \A i \in 1..Len(s) : s[i] = t[i]
  \/ \E i \in 1..Len(s) :
       /\ i <= Len(t)
       /\ \A j \in 1..(i - 1) : s[j] = t[j]
       /\ CharCode(s[i]) < CharCode(t[i])

RECURSIVE InsertSorted(_, _)
InsertSorted(k, sorted) ==
  IF sorted = <<>> THEN <<k>>
  ELSE IF StrLess(k, Head(sorted)) THEN <<k>> \o sorted
  ELSE <<Head(sorted)>> \o InsertSorted(k, Tail(sorted))

RECURSIVE SortFrom(_, _)
SortFrom(names, sorted) ==
  IF names = <<>> THEN sorted
  ELSE SortFrom(Tail(names), InsertSorted(Head(names), sorted))

\* the keys left in the order Object.keys gives them
Unsorted(names) == names

\* names.sort()
sort(names) == SortFrom(names, <<>>)

Digit(d) ==
  CASE d = 0 -> "0" [] d = 1 -> "1" [] d = 2 -> "2" [] d = 3 -> "3"
    [] d = 4 -> "4" [] d = 5 -> "5" [] d = 6 -> "6" [] d = 7 -> "7"
    [] d = 8 -> "8" [] d = 9 -> "9"

\* String(n) for a non-negative integer
RECURSIVE String(_)
String(n) == IF n < 10 THEN <<Digit(n)>> ELSE String(n \div 10) \o <<Digit(n % 10)>>

\* `"${s}"`
Wrap(s) == <<DQ>> \o s \o <<DQ>>

\* quoting without the test of the first character
QuoteAlways(s) == Wrap(s)

\* expression.charAt(0) === '"' ? expression : `"${expression}"`
QuoteIdentifier(s) == IF Len(s) > 0 /\ s[1] = DQ THEN s ELSE Wrap(s)

\* array.join(sep)
RECURSIVE join(_, _)
join(items, sep) ==
  IF items = <<>> THEN <<>>
  ELSE IF Len(items) = 1 THEN items[1]
  ELSE items[1] \o sep \o join(Tail(items), sep)

\* ------------------------------------------------------------------- values

\* an optional string argument (parentTable?, currentColumn?)
Undefined == [def |-> FALSE, v |-> <<>>]
Some(s) == [def |-> TRUE, v |-> s]

\* JavaScript truthiness of an optional string: undefined and '' are falsy
Truthy(x) == x.def /\ Len(x.v) > 0

\* the two symbols the compiler knows, and one it does not
Default == [k |-> "symbol", v |-> "DEFAULT"]
self == [k |-> "symbol", v |-> "self"]
all == [k |-> "symbol", v |-> "all"]

IsDefault(e) == e.k = "symbol" /\ e.v = "DEFAULT"
IsSelf(e) == e.k = "symbol" /\ e.v = "self"

Null == [k |-> "null"]
Num(n) == [k |-> "number", v |-> n]

\* new Parameter(x), new DangerousRawString(x), new ParentColumn(x), ...
param(x) == [k |-> "Parameter", value |-> x]
raw(x) == [k |-> "DangerousRawString", value |-> x]
parent(x) == [k |-> "ParentColumn", value |-> x]
cols(x) == [k |-> "ColumnNames", value |-> x]
vals(x) == [k |-> "ColumnValues", value |-> x]
Str(s) == [k |-> "string", v |-> s]
Arr(items) == [k |-> "array", v |-> items]
\* typeof x === 'object' for a non-null x: its class and its own enumerable
\* properties, in Object.keys order
Obj(props) == [k |-> "object", class |-> "Object", props |-> props]
\* new Date(): typeof 'object', no own enumerable property
DateValue == [k |-> "object", class |-> "Date", props |-> <<>>]
\* a reference to the SQLFragment object at address id
Frag(id) == [k |-> "SQLFragment", id |-> id]

\* Object.keys(o)
ObjectKeys(o) == [i \in 1..Len(o.props) |-> o.props[i].key]

\* o[key]
Get(o, key) == o.props[CHOOSE i \in 1..Len(o.props) : o.props[i].key = key].val

\* ------------------------------------------------------------------ results

\* the default value of compile's first parameter: { text: '', values: [] }
EmptyResult == [text |-> <<>>, values |-> <<>>, thrown |-> "none", arg |-> <<>>]

\* throw new Error(message); arg is the part of the message interpolated from a value
Throw(result, error, arg) == [result EXCEPT !.thrown = error, !.arg = arg]

\* result.text += s
AppendText(result, s) == [result EXCEPT !.text = @ \o s]

\* a numbering that counts from zero
PushParameterZeroBased(result, v) ==
  [result EXCEPT !.values = Append(@, v),
                 !.text = @ \o <<"$">> \o String(Len(result.values))]

\* result.values.push(v); result.text += '$' + String(result.values.length)
PushParameter(result, v) ==
  LET pushed == [result EXCEPT !.values = Append(@, v)]
  IN AppendText(pushed, <<"$">> \o String(Len(pushed.values)))

SelfError == "The 'self' column alias has no meaning here"
ParentError == "The 'parent' table alias has no meaning here"
AlienError == "Alien object while interpolating SQL: "
SymbolToStringError == "TypeError: Cannot convert a Symbol value to a string"
KeysOfNullError == "TypeError: Cannot convert undefined or null to object"

\* `${expression}` in the alien message, for the values that reach it
TemplateString(expression) ==
  CASE expression.k = "number" -> String(expression.v)
    [] expression.k = "undefined" -> <<"u", "n", "d", "e", "f", "i", "n", "e", "d">>
    [] OTHER -> <<>>

\* the pin of the fragment ignored
PinNever(fragment, parentTable) == parentTable

\* the inherited parent table kept when there is one
PinInheritedFirst(fragment, parentTable) ==
  IF Truthy(parentTable) THEN parentTable ELSE fragment.parentTable

\* if (this.parentTable) parentTable = this.parentTable
Pin(fragment, parentTable) ==
  IF Truthy(fragment.parentTable) THEN fragment.parentTable ELSE parentTable

\* -------------------------------------------------------------- the compiler

RECURSIVE compile(_, _, _, _, _)
RECURSIVE compileExpression(_, _, _, _, _, _)
RECURSIVE compileLiterals(_, _, _, _, _, _)
RECURSIVE compileArray(_, _, _, _, _, _, _)
RECURSIVE compileColumnValues(_, _, _, _, _, _, _)
RECURSIVE compileWhereable(_, _, _, _, _, _, _)

\* fragment.compile(result, parentTable, currentColumn)
compile(heap, this, result, parentTable, currentColumn) ==
  LET pinned == Pin(heap[this], parentTable)
      first == AppendText(result, heap[this].literals[1])
  IN compileLiterals(heap, this, 2, first, pinned, currentColumn)

\* the loop of compile, from literal i on
compileLiterals(heap, this, i, result, parentTable, currentColumn) ==
  IF result.thrown # "none" \/ i > Len(heap[this].literals) THEN result
  ELSE LET after == compileExpression(heap, this, heap[this].expressions[i - 1],
                                      result, parentTable, currentColumn)
       IN IF after.thrown # "none" THEN after
          ELSE compileLiterals(heap, this, i + 1,
                               AppendText(after, heap[this].literals[i]),
                               parentTable, currentColumn)

\* the loop over an array's elements, from element i on
compileArray(heap, this, items, i, result, parentTable, currentColumn) ==
  IF result.thrown # "none" \/ i > Len(items) THEN result
  ELSE compileArray(heap, this, items, i + 1,
                    compileExpression(heap, this, items[i], result, parentTable, currentColumn),
                    parentTable, currentColumn)

\* the column of the enclosing entry kept when there is one
KeyColumnInherited(columnName, currentColumn) ==
  IF currentColumn.def THEN currentColumn ELSE Some(columnName)

\* the currentColumn argument passed for the value of the entry columnName
KeyColumn(columnName, currentColumn) == Some(columnName)

\* the value compiled for a ColumnValues entry
ColumnValueExpression(columnValue) ==
  IF columnValue.k = "SQLFragment" \/ IsDefault(columnValue)
  THEN columnValue ELSE param(columnValue)

\* the loop over a ColumnValues object's sorted keys, from key i on
compileColumnValues(heap, this, object, i, result, parentTable, currentColumn) ==
  LET columnNames == sort(ObjectKeys(object))
  IN IF result.thrown # "none" \/ i > Len(columnNames) THEN result
     ELSE LET columnName == columnNames[i]
              columnValue == Get(object, columnName)
              sep == IF i > 1 THEN AppendText(result, <<",", " ">>) ELSE result
              after == compileExpression(heap, this, ColumnValueExpression(columnValue),
                                         sep, parentTable, KeyColumn(columnName, currentColumn))
          IN compileColumnValues(heap, this, object, i + 1, after, parentTable, currentColumn)

\* the value compiled for a Whereable entry that is not a fragment
WhereableValueExpression(columnValue) ==
  IF columnValue.k = "ParentColumn" THEN columnValue ELSE param(columnValue)

\* the loop over a Whereable's sorted keys, from key i on
compileWhereable(heap, this, object, i, result, parentTable, currentColumn) ==
  LET columnNames == sort(ObjectKeys(object))
  IN IF result.thrown # "none" \/ i > Len(columnNames) THEN result
     ELSE LET columnName == columnNames[i]
              columnValue == Get(object, columnName)
              sep == IF i > 1 THEN AppendText(result, <<" ", "A", "N", "D", " ">>) ELSE result
              after ==
                IF columnValue.k = "SQLFragment"
                THEN LET inner == compileExpression(heap, this, columnValue,
                                                    AppendText(sep, <<"(">>),
                                                    parentTable, KeyColumn(columnName, currentColumn))
                     IN IF inner.thrown # "none" THEN inner ELSE AppendText(inner, <<")">>)
                ELSE compileExpression(heap, this, WhereableValueExpression(columnValue),
                                       AppendText(sep, Wrap(columnName) \o <<" ", "=", " ">>),
                                       parentTable, KeyColumn(columnName, currentColumn))
          IN compileWhereable(heap, this, object, i + 1, after, parentTable, currentColumn)

\* the names of a ColumnNames node, an object's keys not sorted
ColumnNameListUnsorted(value) ==
  IF value.k = "array" THEN [i \in 1..Len(value.v) |-> value.v[i].v]
  ELSE ObjectKeys(value)

\* the names a ColumnNames node lists
ColumnNameList(value) ==
  IF value.k = "array" THEN [i \in 1..Len(value.v) |-> value.v[i].v]
  ELSE sort(ObjectKeys(value))

\* this.compileExpression(expression, result, parentTable, currentColumn)
compileExpression(heap, this, expression, result, parentTableArg, currentColumn) ==
  LET parentTable == Pin(heap[this], parentTableArg)
  IN IF result.thrown # "none" THEN result
     ELSE CASE expression.k = "SQLFragment" ->
                 compile(heap, expression.id, result, parentTable, currentColumn)
            [] expression.k = "string" ->
                 AppendText(result, QuoteIdentifier(expression.v))
            [] expression.k = "DangerousRawString" ->
                 AppendText(result, expression.value)
            [] expression.k = "array" ->
                 compileArray(heap, this, expression.v, 1, result, parentTable, currentColumn)
            [] expression.k = "Parameter" ->
                 PushParameter(result, expression.value)
            [] IsDefault(expression) ->
                 AppendText(result, <<"D", "E", "F", "A", "U", "L", "T">>)
            [] IsSelf(expression) ->
                 IF ~Truthy(currentColumn) THEN Throw(result, SelfError, <<>>)
                 ELSE AppendText(result, Wrap(currentColumn.v))
            [] expression.k = "ParentColumn" ->
                 IF ~Truthy(parentTable) THEN Throw(result, ParentError, <<>>)
                 ELSE AppendText(result, Wrap(parentTable.v) \o <<".">> \o Wrap(expression.value))
            [] expression.k = "ColumnNames" ->
                 LET columnNames == ColumnNameList(expression.value)
                 IN AppendText(result,
                      join([i \in 1..Len(columnNames) |-> Wrap(columnNames[i])], <<",", " ">>))
            [] expression.k = "ColumnValues" ->
                 compileColumnValues(heap, this, expression.value, 1, result,
                                     parentTable, currentColumn)
            [] expression.k = "null" ->
                 \* typeof null === 'object': Object.keys(null) throws
                 Throw(result, KeysOfNullError, <<>>)
            [] expression.k = "object" ->
                 IF Len(expression.props) > 0
                 THEN LET inner == compileWhereable(heap, this, expression, 1,
                                                    AppendText(result, <<"(">>),
                                                    parentTable, currentColumn)
                      IN IF inner.thrown # "none" THEN inner ELSE AppendText(inner, <<")">>)
                 ELSE AppendText(result, <<"T", "R", "U", "E">>)
            [] expression.k = "symbol" ->
                 \* the template literal of the alien message cannot format a symbol
                 Throw(result, SymbolToStringError, <<>>)
            [] OTHER ->
                 Throw(result, AlienError, TemplateString(expression))

\* ------------------------------------------------------------------- inputs

\* the largest number used as a bound value
MaxValue == 2
\* the number of run() invocations in flight
MaxRuns == 2

a == <<"a">>
b == <<"b">>
t == <<"t">>
u == <<"u">>
\* a name that is already quoted: "c"
qc == <<DQ, "c", DQ>>

\* new SQLFragment(literals, expressions), then fragment.parentTable = parentTable
Fragment(literals, expressions, parentTable, transform) ==
  [literals |-> literals, expressions |-> expressions,
   parentTable |-> parentTable, runResultTransform |-> transform]

\* The literal in front of an expression brackets what the expression emits, so
\* that the text a self or a ParentColumn compiles to can be read off the output.
Opening(e) ==
  LET first == IF e.k = "array" /\ e.v # <<>> THEN e.v[1] ELSE e
  IN IF IsSelf(first) THEN <<"@">>
     ELSE IF first.k = "ParentColumn" THEN <<"#">>
     ELSE <<"<">>

\* sql`${e1}${e2}...` with the bracketing literals written in
Template(expressions, parentTable) ==
  Fragment([i \in 1..(Len(expressions) + 1) |->
              IF i = 1 THEN IF expressions = <<>> THEN <<"<">> ELSE Opening(expressions[1])
              ELSE IF i = Len(expressions) + 1 THEN <<"~">>
              ELSE <<"~">> \o Opening(expressions[i])],
           expressions, parentTable, "rows")

Numbers == {Num(n) : n \in 1..MaxValue}

\* objects of at most two properties over the keys a and b, in either insertion order
Objects(values) ==
  {Obj(<<>>)}
    \cup {Obj(<<[key |-> k1, val |-> v1]>>) : k1 \in {a, b}, v1 \in values}
    \cup {Obj(<<[key |-> k1, val |-> v1], [key |-> k2, val |-> v2]>>) :
            <<k1, k2>> \in {<<a, b>>, <<b, a>>}, <<v1, v2>> \in values \X values}

\* the innermost fragment (address 1)
Inner ==
  {Template(<<self>>, Undefined),
   Template(<<parent(a)>>, Undefined),
   Template(<<parent(a)>>, Some(u)),
   Template(<<param(Num(1))>>, Undefined),
   Template(<<Arr(<<self>>), Arr(<<parent(qc)>>)>>, Some(qc))}

\* the middle fragment (address 2), which nests fragment 1
Middle ==
  {Template(<<Frag(1), parent(b)>>, Some(t)),
   Template(<<Frag(1), parent(b)>>, Undefined),
   Template(<<Obj(<<[key |-> b, val |-> Frag(1)]>>), self>>, Undefined),
   Template(<<vals(Obj(<<[key |-> b, val |-> Frag(1)], [key |-> a, val |-> self]>>))>>, Undefined)}

MappingValues == Numbers \cup {Default, parent(a), Frag(1), Frag(2)}

FirstExpressions ==
  {Str(a), Str(qc), raw(<<"1", "=", "1">>), Default, self, parent(a), parent(qc),
   Arr(<<>>), Arr(<<param(Num(1)), Default, param(Num(2))>>), Arr(<<self>>),
   Frag(1), Frag(2), Arr(<<Frag(1), Frag(2)>>),
   Num(1), all, Null, DateValue, [k |-> "undefined"],
   cols(Arr(<<>>)), cols(Arr(<<Str(b), Str(a)>>)), cols(Arr(<<Str(qc)>>)),
   Obj(<<[key |-> a, val |-> self]>>), vals(Obj(<<[key |-> a, val |-> parent(a)]>>)),
   Obj(<<[key |-> qc, val |-> Frag(1)]>>), vals(Obj(<<[key |-> qc, val |-> Frag(1)]>>))}
    \cup {param(n) : n \in Numbers}
    \cup Objects(MappingValues)
    \cup {vals(o) : o \in Objects(MappingValues)}
    \cup {cols(o) : o \in Objects({Num(1)})}

SecondExpressions == {self, parent(b), param(Num(1))}

\* ColumnNames and ColumnValues over two objects with the same keys
Inserts ==
  {<<cols(o1), vals(o2)>> : <<o1, o2>> \in
     {<<p1, p2>> \in Objects({Num(1)}) \X Objects(MappingValues) :
        {p1.props[i].key : i \in 1..Len(p1.props)} = {p2.props[i].key : i \in 1..Len(p2.props)}}}

ExpressionLists ==
  {<<>>} \cup {<<e>> : e \in FirstExpressions}
    \cup {<<e1, e2>> : e1 \in FirstExpressions, e2 \in SecondExpressions}
    \cup Inserts

\* sql`SELECT * FROM ${"users"} WHERE ${{id: 5}}`
Scenario ==
  Fragment(<<<<"S", "E", "L", "E", "C", "T", " ", "*", " ", "F", "R", "O", "M", " ">>,
             <<" ", "W", "H", "E", "R", "E", " ">>,
             <<>>>>,
           <<Str(<<"u", "s", "e", "r", "s">>), Obj(<<[key |-> <<"i", "d">>, val |-> Num(5)]>>)>>,
           Undefined, "rows")

\* the outermost fragment (address 3), which may nest fragments 1 and 2
Outer ==
  {Template(es, pt) : es \in ExpressionLists, pt \in {Undefined, Some(t)}} \cup {Scenario}

Heaps == {<<f1, f2, f3>> : f1 \in Inner, f2 \in Middle, f3 \in Outer}

\* the heaps the execution adapter is run on: fragment 1 is nested in 2 and in 3
RunHeaps ==
  {<<f1, f2, f3>> :
     f1 \in {Template(<<self>>, Undefined), Template(<<param(Num(1))>>, Undefined)},
     f2 \in {Template(<<Obj(<<[key |-> b, val |-> Frag(1)]>>), param(Num(2))>>, Undefined)},
     f3 \in {Template(<<Frag(1), vals(Obj(<<[key |-> a, val |-> Frag(1)],
                                            [key |-> b, val |-> Num(2)]>>))>>, Undefined),
             Template(<<param(Num(2)), all>>, Undefined),
             Template(<<Frag(2), parent(a)>>, Some(t))}}

\* what the queryable answers with, and what it fails with
RowSets == {<<Num(1)>>}
QueryErrors == {"connection terminated", "unique_violation"}

Runs == 1..MaxRuns

VARIABLES
  frags,       \* the heap of SQLFragment objects, by address
  last,        \* the fragment of the last compile() call and what it returned
  verbose,     \* getConfig().verbose
  pc,          \* where each run() invocation stands
  target,      \* the fragment each run() was invoked on
  acc,         \* the heap of result objects, by address
  query,       \* the address of the object each run() handed to queryable.query
  calls,       \* how often each run() has called queryable.query
  transforms,  \* how often each run() has applied runResultTransform
  failure,     \* what queryable.query failed with, for each run()
  outcome,     \* what each run() returned or threw
  console      \* what console.log has printed

runVars == <<verbose, pc, target, acc, query, calls, transforms, failure, outcome, console>>
vars == <<frags, last, runVars>>

NoCall == [f |-> 0, result |-> EmptyResult]
NoFailure == "none"
NoOutcome == [kind |-> "none"]

Idle ==
  /\ pc = [p \in Runs |-> "idle"]
  /\ target = [p \in Runs |-> 0]
  /\ acc = [c \in Runs |-> EmptyResult]
  /\ query = [p \in Runs |-> 0]
  /\ calls = [p \in Runs |-> 0]
  /\ transforms = [p \in Runs |-> 0]
  /\ failure = [p \in Runs |-> NoFailure]
  /\ outcome = [p \in Runs |-> NoOutcome]
  /\ console = <<>>

Init ==
  /\ frags \in Heaps
  /\ last = NoCall
  /\ verbose = FALSE
  /\ Idle

\* fragment.compile()
Compile(f) ==
  /\ last' = [f |-> f, result |-> compile(frags, f, EmptyResult, Undefined, Undefined)]
  /\ UNCHANGED <<frags, runVars>>

Next == \E f \in DOMAIN frags : Compile(f)

Spec == Init /\ [][Next]_vars

\* ------------------------------------------------------ the execution adapter

\* every result object under one address
SharedResult(p) == 1

\* the address of the object that `= { text: '', values: [] }` allocates for the
\* compile() of invocation p: a new object at every call
NewResult(p) == p

\* the call of queryable.query made whatever compile has thrown
SubmitsAlways(result) == TRUE

\* run reaches queryable.query only if this.compile() has returned
Submits(result) == result.thrown = "none"

\* the default runResultTransform: (qr) => qr.rows
ApplyTransform(transform, qr) == qr.rows

\* fragment.run(queryable), up to the await
Run(p, f) ==
  /\ pc[p] = "idle"
  /\ LET cell == NewResult(p)
         result == compile(frags, f, EmptyResult, Undefined, Undefined)
     IN /\ acc' = [acc EXCEPT ![cell] = result]
        /\ target' = [target EXCEPT ![p] = f]
        /\ IF Submits(result)
           THEN /\ console' = IF verbose
                               THEN Append(console, [text |-> result.text, values |-> result.values])
                               ELSE console
                /\ query' = [query EXCEPT ![p] = cell]
                /\ calls' = [calls EXCEPT ![p] = @ + 1]
                /\ pc' = [pc EXCEPT ![p] = "awaiting"]
                /\ UNCHANGED outcome
           ELSE /\ pc' = [pc EXCEPT ![p] = "rejected"]
                /\ outcome' = [outcome EXCEPT ![p] =
                                 [kind |-> "error", error |-> result.thrown, arg |-> result.arg]]
                /\ UNCHANGED <<console, query, calls>>
  /\ UNCHANGED <<frags, last, verbose, transforms, failure>>

\* the promise of queryable.query is fulfilled: return this.runResultTransform(qr)
QueryResolve(p, rows) ==
  /\ pc[p] = "awaiting"
  /\ transforms' = [transforms EXCEPT ![p] = @ + 1]
  /\ outcome' = [outcome EXCEPT ![p] =
                   [kind |-> "value",
                    value |-> ApplyTransform(frags[target[p]].runResultTransform,
                                             [rows |-> rows])]]
  /\ pc' = [pc EXCEPT ![p] = "resolved"]
  /\ UNCHANGED <<frags, last, verbose, target, acc, query, calls, failure, console>>

\* the promise of queryable.query is rejected: the await throws
QueryReject(p, e) ==
  /\ pc[p] = "awaiting"
  /\ failure' = [failure EXCEPT ![p] = e]
  /\ outcome' = [outcome EXCEPT ![p] = [kind |-> "error", error |-> e, arg |-> <<>>]]
  /\ pc' = [pc EXCEPT ![p] = "rejected"]
  /\ UNCHANGED <<frags, last, verbose, target, acc, query, calls, transforms, console>>

RunInit ==
  /\ frags \in RunHeaps
  /\ last = NoCall
  /\ verbose \in BOOLEAN
  /\ Idle

RunNext ==
  \/ \E p \in Runs, f \in DOMAIN frags : Run(p, f)
  \/ \E p \in Runs, rows \in RowSets : QueryResolve(p, rows)
  \/ \E p \in Runs, e \in QueryErrors : QueryReject(p, e)
  \/ \E f \in DOMAIN frags : Compile(f)

RunSpec == RunInit /\ [][RunNext]_vars

\* ------------------------------------------------- what the claims speak of

\* the names of a set in ascending ordinal order
RECURSIVE Ascending(_)
Ascending(names) ==
  IF names = {} THEN <<>>
  ELSE LET least == CHOOSE n \in names : \A m \in names \ {n} : StrLess(n, m)
       IN <<least>> \o Ascending(names \ {least})

KeySet(o) == {o.props[i].key : i \in 1..Len(o.props)}

RECURSIVE Concat(_)
Concat(seqs) == IF seqs = <<>> THEN <<>> ELSE Head(seqs) \o Concat(Tail(seqs))

\* The nodes of an expression that bind a value or read the context, in the order
\* of their appearance, each with the context the specification gives it: the
\* parent table is the pin of the innermost enclosing fragment that pins one, the
\* current column is the innermost enclosing ColumnValues or Whereable key.
RECURSIVE Scoped(_, _, _, _)
Scoped(heap, e, pt, cc) ==
  CASE e.k = "SQLFragment" ->
         LET g == heap[e.id]
             own == IF g.parentTable.def THEN g.parentTable ELSE pt
         IN Concat([i \in 1..Len(g.expressions) |-> Scoped(heap, g.expressions[i], own, cc)])
    [] e.k = "array" ->
         Concat([i \in 1..Len(e.v) |-> Scoped(heap, e.v[i], pt, cc)])
    [] e.k = "Parameter" -> <<[k |-> "param", v |-> e.value]>>
    [] IsSelf(e) -> <<[k |-> "self", cc |-> cc]>>
    [] e.k = "ParentColumn" -> <<[k |-> "parent", pt |-> pt, col |-> e.value]>>
    [] e.k = "ColumnValues" ->
         LET keys == Ascending(KeySet(e.value))
         IN Concat([i \in 1..Len(keys) |->
                      LET v == Get(e.value, keys[i])
                      IN IF v.k = "SQLFragment" THEN Scoped(heap, v, pt, Some(keys[i]))
                         ELSE IF IsDefault(v) THEN <<>>
                         ELSE <<[k |-> "param", v |-> v]>>])
    [] e.k = "object" /\ e.class = "Object" ->
         LET keys == Ascending(KeySet(e))
         IN Concat([i \in 1..Len(keys) |->
                      LET v == Get(e, keys[i])
                      IN IF v.k = "SQLFragment" THEN Scoped(heap, v, pt, Some(keys[i]))
                         ELSE IF v.k = "ParentColumn"
                              THEN <<[k |-> "parent", pt |-> pt, col |-> v.value]>>
                         ELSE <<[k |-> "param", v |-> v]>>])
    [] e.k \in {"string", "DangerousRawString", "ColumnNames"} \/ IsDefault(e) -> <<>>
    [] OTHER -> <<[k |-> "alien", node |-> e]>>

Params(atoms) == SelectSeq(atoms, LAMBDA x : x.k = "param")
Selfs(atoms) == SelectSeq(atoms, LAMBDA x : x.k = "self")
Parents(atoms) == SelectSeq(atoms, LAMBDA x : x.k = "parent")
Aliens(atoms) == SelectSeq(atoms, LAMBDA x : x.k = "alien")

\* the nodes of the fragment last compiled, as a top-level compile() reaches them
LastAtoms == Scoped(frags, Frag(last.f), Undefined, Undefined)

Compiled == last.f # 0
Succeeded == Compiled /\ last.result.thrown = "none"

IsDigit(c) == c \in {"0", "1", "2", "3", "4", "5", "6", "7", "8", "9"}
DigitValue(c) == CHOOSE d \in 0..9 : Digit(d) = c

RECURSIVE ReadNumber(_, _, _)
ReadNumber(text, i, n) ==
  IF i <= Len(text) /\ IsDigit(text[i])
  THEN ReadNumber(text, i + 1, n * 10 + DigitValue(text[i])) ELSE n

\* the numbers of the placeholders of a text, in the order of their appearance
RECURSIVE PlaceholdersFrom(_, _)
PlaceholdersFrom(text, i) ==
  IF i > Len(text) THEN <<>>
  ELSE IF text[i] = "$" THEN <<ReadNumber(text, i + 1, 0)>> \o PlaceholdersFrom(text, i + 1)
  ELSE PlaceholdersFrom(text, i + 1)

Placeholders(text) == PlaceholdersFrom(text, 1)

\* the least j >= i with text[j] in stops, or Len(text) + 1
RECURSIVE Until(_, _, _)
Until(text, i, stops) ==
  IF i > Len(text) \/ text[i] \in stops THEN i ELSE Until(text, i + 1, stops)

\* what was emitted between each "@" and the "~" that follows it
RECURSIVE SelfTextsFrom(_, _)
SelfTextsFrom(text, i) ==
  IF i > Len(text) THEN <<>>
  ELSE IF text[i] = "@"
       THEN LET j == Until(text, i + 1, {"~"})
            IN <<SubSeq(text, i + 1, j - 1)>> \o SelfTextsFrom(text, j)
       ELSE SelfTextsFrom(text, i + 1)

SelfTexts(text) == SelfTextsFrom(text, 1)

\* what was emitted after each "#" and after each `= ` that no placeholder
\* follows, up to the next "~", ")" or space
RECURSIVE ParentTextsFrom(_, _)
ParentTextsFrom(text, i) ==
  IF i > Len(text) THEN <<>>
  ELSE IF \/ i > 1 /\ text[i - 1] = "#"
          \/ i > 2 /\ text[i - 2] = "=" /\ text[i - 1] = " " /\ text[i] # "$"
       THEN LET j == Until(text, i, {"~", ")", " "})
            IN <<SubSeq(text, i, j - 1)>> \o ParentTextsFrom(text, j)
       ELSE ParentTextsFrom(text, i + 1)

ParentTexts(text) == ParentTextsFrom(text, 1)

\* a node whose compilation must fail
Fails(atom) ==
  \/ atom.k = "alien"
  \/ atom.k = "self" /\ ~atom.cc.def
  \/ atom.k = "parent" /\ ~atom.pt.def

Failing(atoms) == SelectSeq(atoms, Fails)

\* C1: a compilation that succeeds binds exactly the values of the
\* Parameter-contributing nodes it reaches (explicit Parameters, the non-fragment
\* non-Default values of ColumnValues, the non-fragment non-ParentColumn values of
\* Whereables), in order, and its text holds exactly the placeholders $1..$N in
\* increasing order, the n-th bound to values[n-1].
C1_PlaceholdersMatchValues ==
  Succeeded =>
    LET params == Params(LastAtoms)
    IN /\ last.result.values = [i \in 1..Len(params) |-> params[i].v]
       /\ Placeholders(last.result.text) = [i \in 1..Len(params) |-> i]

\* a successful compilation of the outer fragment that binds four values or more,
\* one of them inside a nested fragment
C1_Witness ==
  /\ Succeeded
  /\ last.f = 3
  /\ Len(last.result.values) >= 4
  /\ \E i \in 1..Len(frags[3].expressions) :
        /\ frags[3].expressions[i].k = "ColumnValues"
        /\ \E j \in 1..Len(frags[3].expressions[i].value.props) :
             frags[3].expressions[i].value.props[j].val.k = "SQLFragment"

\* String(x), the description the alien message is meant to carry
Describe(node) ==
  CASE node.k = "number" -> String(node.v)
    [] node.k = "undefined" -> <<"u", "n", "d", "e", "f", "i", "n", "e", "d">>
    [] node.k = "null" -> <<"n", "u", "l", "l">>
    [] node.k = "symbol" -> <<"S", "y", "m", "b", "o", "l", "(", "a", "l", "l", ")">>
    [] OTHER -> <<"D", "a", "t", "e">>

\* C3: a node of no recognized kind makes the compilation fail with the
\* unsupported-expression error, which carries a description of the node; no such
\* node is silently compiled into text.
C3_UnrecognizedNodeRejected ==
  LET atoms == LastAtoms
      failing == Failing(atoms)
  IN (Compiled /\ Aliens(atoms) # <<>>) =>
       /\ ~Succeeded
       /\ failing[1].k = "alien" =>
            /\ last.result.thrown = AlienError
            /\ last.result.arg = Describe(failing[1].node)

\* C4: with only recognized nodes, a top-level compile() raises the self context
\* error exactly when the first node that must fail is a self with no current
\* column, the parent context error exactly when it is a ParentColumn with no
\* parent table, and succeeds exactly when no node must fail; on success every
\* self has compiled to its quoted current column and every ParentColumn to
\* "parentTable"."col", and neither has added a value.
C4_ContextErrors ==
  LET atoms == LastAtoms
      failing == Failing(atoms)
      selfs == Selfs(atoms)
      parents == Parents(atoms)
      selfTexts == SelfTexts(last.result.text)
      parentTexts == ParentTexts(last.result.text)
  IN (Compiled /\ Aliens(atoms) = <<>>) =>
       /\ last.result.thrown = SelfError <=> (failing # <<>> /\ failing[1].k = "self")
       /\ last.result.thrown = ParentError <=> (failing # <<>> /\ failing[1].k = "parent")
       /\ Succeeded <=> failing = <<>>
       /\ Succeeded =>
            /\ Len(last.result.values) = Len(Params(atoms))
            /\ selfTexts = [i \in 1..Len(selfs) |-> Wrap(selfs[i].cc.v)]
            /\ Len(parentTexts) = Len(parents)
            /\ \A i \in 1..Len(parents) :
                 \E tbl \in {t, u, qc} :
                   parentTexts[i] = Wrap(tbl) \o <<".">> \o Wrap(parents[i].col)

\* a self that fails in the outer fragment, after a key has given a nested self
\* its column
C4_WitnessSelfFails ==
  LET atoms == LastAtoms
  IN /\ Compiled /\ last.f = 3 /\ Aliens(atoms) = <<>>
     /\ last.result.thrown = SelfError
     /\ Len(Selfs(atoms)) >= 2
     /\ Selfs(atoms)[1].cc.def

\* C9: every ParentColumn(c) compiles to "T"."c" with T the pin of the innermost
\* enclosing fragment that pins a parent table, also after a nested fragment with
\* a pin of its own has been compiled.
C9_InnermostPinWins ==
  LET atoms == LastAtoms
      parents == Parents(atoms)
  IN (Succeeded /\ Aliens(atoms) = <<>>) =>
       ParentTexts(last.result.text)
         = [i \in 1..Len(parents) |->
              Wrap(parents[i].pt.v) \o <<".">> \o Wrap(parents[i].col)]

\* the outer fragment pins t, a nested fragment pins another table, and a
\* ParentColumn of the outer fragment is compiled after the nested one
C9_Witness ==
  LET atoms == LastAtoms
      parents == Parents(atoms)
  IN /\ Succeeded /\ last.f = 3 /\ Aliens(atoms) = <<>>
     /\ frags[3].parentTable = Some(t)
     /\ \E i, j \in 1..Len(parents) :
           /\ i < j
           /\ parents[i].pt \in {Some(u), Some(qc)}
           /\ parents[j].pt = Some(t)

\* C10: a self compiles to the quoted key of the innermost enclosing
\* ColumnValues or Whereable entry, the next key's value sees its own key, and a
\* self that follows the mapping sees the column in effect before it: with none,
\* the compilation fails.
C10_CurrentColumnScoped ==
  LET atoms == LastAtoms
      selfs == Selfs(atoms)
  IN (Compiled /\ Aliens(atoms) = <<>>) =>
       /\ Succeeded =>
            SelfTexts(last.result.text) = [i \in 1..Len(selfs) |-> Wrap(selfs[i].cc.v)]
       /\ (\E i \in 1..Len(selfs) : ~selfs[i].cc.def) => ~Succeeded

\* an outer key a whose value nests a mapping with key b: the self inside b's
\* value compiles to "b", the self after that mapping to "a"
C10_Witness ==
  LET atoms == LastAtoms
      selfs == Selfs(atoms)
  IN /\ Succeeded /\ last.f = 3 /\ Aliens(atoms) = <<>>
     /\ Len(selfs) >= 2
     /\ selfs[1].cc = Some(b)
     /\ selfs[2].cc = Some(a)
     /\ SelfTexts(last.result.text) = <<Wrap(b), Wrap(a)>>

\* the fragment last compiled, its pin and the accumulator after its first literal
LastFragment == frags[last.f]
LastPin == LastFragment.parentTable
AfterFirstLiteral == AppendText(EmptyResult, LastFragment.literals[1])

\* the result of the fragment last compiled, given the accumulator as it must
\* stand after expression number done
Rest(after, done) ==
  IF after.thrown # "none" THEN after
  ELSE compileLiterals(frags, last.f, done + 2,
                       AppendText(after, LastFragment.literals[done + 1]),
                       LastPin, Undefined)

\* up to the text accumulated before an exception, which no caller can see
SameOutcome(r1, r2) ==
  IF r1.thrown = "none" /\ r2.thrown = "none" THEN r1 = r2
  ELSE r1.thrown = r2.thrown /\ r1.arg = r2.arg

\* `$n` with v bound as the next value
Bound(r, v) ==
  [r EXCEPT !.values = @ \o <<v>>, !.text = @ \o <<"$">> \o String(Len(r.values) + 1)]

\* the conditions of a Whereable from key number i on, as C5 states them
RECURSIVE Conditions(_, _, _, _, _)
Conditions(m, keys, i, r, pt) ==
  IF r.thrown # "none" \/ i > Len(keys) THEN r
  ELSE LET v == Get(m, keys[i])
           r1 == IF i > 1 THEN AppendText(r, <<" ", "A", "N", "D", " ">>) ELSE r
           lhs == AppendText(r1, <<DQ>> \o keys[i] \o <<DQ, " ", "=", " ">>)
           r2 == IF v.k = "SQLFragment"
                 THEN LET inner == compile(frags, v.id, AppendText(r1, <<"(">>), pt, Some(keys[i]))
                      IN IF inner.thrown # "none" THEN inner ELSE AppendText(inner, <<")">>)
                 ELSE IF v.k = "ParentColumn"
                 THEN IF pt.def
                      THEN AppendText(lhs, <<DQ>> \o pt.v \o <<DQ, ".", DQ>> \o v.value \o <<DQ>>)
                      ELSE Throw(lhs, ParentError, <<>>)
                 ELSE Bound(lhs, v)
       IN Conditions(m, keys, i + 1, r2, pt)

\* what a Whereable adds to the accumulator r, as C5 states it
WhereClause(m, r, pt) ==
  IF KeySet(m) = {} THEN AppendText(r, <<"T", "R", "U", "E">>)
  ELSE LET inner == Conditions(m, Ascending(KeySet(m)), 1, AppendText(r, <<"(">>), pt)
       IN IF inner.thrown # "none" THEN inner ELSE AppendText(inner, <<")">>)

IsWhereable(e) == e.k = "object" /\ e.class = "Object"

\* the properties of the example of C5, whatever their insertion order
IsExampleMapping(e) ==
  /\ IsWhereable(e)
  /\ {e.props[i] : i \in 1..Len(e.props)}
       = {[key |-> a, val |-> Num(1)], [key |-> b, val |-> Num(2)]}

\* C5: an empty Whereable compiles to TRUE and binds nothing; any other compiles
\* to one parenthesised group of conditions in ascending key order joined by
\* ' AND ', whatever the insertion order: '(<compiled fragment>)' for a nested
\* fragment, '"key" = "parentTable"."col"' with no value for a ParentColumn,
\* '"key" = $n' with the value bound for anything else; {a: 1, b: 2} gives
\* ("a" = $1 AND "b" = $2) with values [1, 2], and the scenario of the
\* specification gives SELECT * FROM "users" WHERE ("id" = $1) with values [5].
C5_WhereableConjunction ==
  (Compiled /\ LastFragment.expressions # <<>> /\ IsWhereable(LastFragment.expressions[1])) =>
    /\ SameOutcome(last.result,
                   Rest(WhereClause(LastFragment.expressions[1], AfterFirstLiteral, LastPin), 1))
    /\ (Len(LastFragment.expressions) = 1 /\ IsExampleMapping(LastFragment.expressions[1])) =>
         /\ last.result.text
              = <<"<", "(", DQ, "a", DQ, " ", "=", " ", "$", "1", " ", "A", "N", "D", " ",
                  DQ, "b", DQ, " ", "=", " ", "$", "2", ")", "~">>
         /\ last.result.values = <<Num(1), Num(2)>>
    /\ LastFragment = Scenario =>
         /\ last.result.text
              = <<"S", "E", "L", "E", "C", "T", " ", "*", " ", "F", "R", "O", "M", " ", DQ, "u", "s", "e", "r", "s", DQ, " ", "W", "H", "E", "R", "E", " ", "(", DQ, "i", "d", DQ, " ", "=", " ", "$", "1", ")">>
         /\ last.result.values = <<Num(5)>>

\* the example with b inserted before a
C5_Witness ==
  /\ Succeeded /\ last.f = 3
  /\ frags[3].expressions
       = <<Obj(<<[key |-> b, val |-> Num(2)], [key |-> a, val |-> Num(1)]>>)>>
  /\ last.result.values = <<Num(1), Num(2)>>

\* the value items of a ColumnValues from key number i on, as C6 states them
RECURSIVE ValueItems(_, _, _, _, _)
ValueItems(m, keys, i, r, pt) ==
  IF r.thrown # "none" \/ i > Len(keys) THEN r
  ELSE LET v == Get(m, keys[i])
           r1 == IF i > 1 THEN AppendText(r, <<",", " ">>) ELSE r
           r2 == IF v.k = "SQLFragment" THEN compile(frags, v.id, r1, pt, Some(keys[i]))
                 ELSE IF IsDefault(v) THEN AppendText(r1, <<"D", "E", "F", "A", "U", "L", "T">>)
                 ELSE Bound(r1, v)
       IN ValueItems(m, keys, i + 1, r2, pt)

\* the names a ColumnNames emits, as C6 states them
NameItems(value) ==
  LET names == IF value.k = "array" THEN [i \in 1..Len(value.v) |-> value.v[i].v]
               ELSE Ascending(KeySet(value))
  IN join([i \in 1..Len(names) |-> <<DQ>> \o names[i] \o <<DQ>>], <<",", " ">>)

QuotedOnce(s) == IF s # <<>> /\ s[1] = DQ THEN s ELSE <<DQ>> \o s \o <<DQ>>

\* The identifiers of the fragment last compiled: a string node delimited once,
\* every other identifier delimited once too (passThrough) or always wrapped.
Quoting(passThrough) ==
  LET quote(s) == QuotedOnce(s)
      quoteName(s) == IF passThrough THEN QuotedOnce(s) ELSE <<DQ>> \o s \o <<DQ>>
      es == LastFragment.expressions
      atoms == LastAtoms
      selfs == Selfs(atoms)
      parents == Parents(atoms)
  IN /\ (Len(es) = 1 /\ es[1].k = "string") =>
          last.result.text = LastFragment.literals[1] \o quote(es[1].v) \o LastFragment.literals[2]
     /\ (Len(es) = 1 /\ es[1].k = "ColumnNames") =>
          LET names == IF es[1].value.k = "array"
                       THEN [i \in 1..Len(es[1].value.v) |-> es[1].value.v[i].v]
                       ELSE Ascending(KeySet(es[1].value))
          IN last.result.text
               = LastFragment.literals[1]
                   \o join([i \in 1..Len(names) |-> quoteName(names[i])], <<",", " ">>)
                   \o LastFragment.literals[2]
     /\ Aliens(atoms) = <<>> =>
          /\ SelfTexts(last.result.text) = [i \in 1..Len(selfs) |-> quoteName(selfs[i].cc.v)]
          /\ ParentTexts(last.result.text)
               = [i \in 1..Len(parents) |->
                    quoteName(parents[i].pt.v) \o <<".">> \o quoteName(parents[i].col)]

\* C8 as stated: every identifier emitted (a string node, a name of a ColumnNames
\* list, the current column put for self, the table and the column of a
\* ParentColumn) is passed through when it begins with a double quote and wrapped
\* in one pair of double quotes otherwise.
C8_EveryIdentifierQuotedOnce == Succeeded => Quoting(TRUE)

\* C8 amended: a string node is passed through when it begins with a double quote
\* and wrapped in one pair of double quotes otherwise; a name of a ColumnNames
\* list, the current column put for self, and the table and the column of a
\* ParentColumn are wrapped in one pair of double quotes whatever they begin with.
C8_OnlyStringNodesPassThrough == Succeeded => Quoting(FALSE)

\* an already quoted key as the current column of a nested self: wrapped again
C8_Witness ==
  /\ Succeeded /\ last.f = 3
  /\ frags[3].expressions = <<Obj(<<[key |-> qc, val |-> Frag(1)]>>)>>
  /\ SelfTexts(last.result.text) = <<(<<DQ>> \o qc \o <<DQ>>)>>

\* what a compile() of fragment f on its own returns
Solo(f) == compile(frags, f, EmptyResult, Undefined, Undefined)

\* C2: a run() calls queryable.query at most once, and only with the complete
\* result of a compile() that has returned; when compile() raises, the query is
\* never made and runResultTransform never applied; when the query fails, its
\* error reaches the caller unchanged and runResultTransform is not applied.
C2_RunIsFailFast ==
  \A p \in Runs :
    LET solo == IF pc[p] = "idle" THEN EmptyResult ELSE Solo(target[p])
    IN /\ calls[p] <= 1
       /\ calls[p] = 1 =>
            /\ query[p] # 0
            /\ acc[query[p]].thrown = "none"
            /\ solo.thrown = "none"
       /\ solo.thrown # "none" =>
            /\ calls[p] = 0 /\ transforms[p] = 0
            /\ pc[p] = "rejected"
            /\ outcome[p].kind = "error" /\ outcome[p].error = solo.thrown
       /\ failure[p] # NoFailure =>
            /\ transforms[p] = 0
            /\ pc[p] = "rejected"
            /\ outcome[p].kind = "error" /\ outcome[p].error = failure[p]
       /\ transforms[p] <= calls[p]

\* one run() whose compile() raised, another whose query failed
C2_Witness ==
  \E p, q \in Runs :
    /\ pc[p] = "rejected" /\ failure[p] = NoFailure /\ calls[p] = 0
    /\ pc[q] = "rejected" /\ failure[q] = "unique_violation" /\ calls[q] = 1

\* what the queryable holds for every run() that has made its call is what a
\* compile() of its fragment alone produces, numbered from $1
Isolated ==
  \A p \in Runs :
    query[p] # 0 =>
      /\ acc[query[p]] = Solo(target[p])
      /\ Placeholders(acc[query[p]].text) = [i \in 1..Len(acc[query[p]].values) |-> i]

\* C7: in every interleaving of run() calls, each invocation submits exactly the
\* {text, values} of a compile() of its fragment alone, numbered from $1 and with
\* no value of another invocation, and no compilation changes a fragment.
C7_InvocationsDoNotInterfere == [](Isolated) /\ [][frags' = frags]_vars

\* two invocations suspended at the await at once, on fragments that nest the
\* same fragment, each with values of its own
C7_Witness ==
  /\ pc[1] = "awaiting" /\ pc[2] = "awaiting"
  /\ target[1] = 3 /\ target[2] = 2
  /\ Len(acc[query[1]].values) >= 2 /\ Len(acc[query[2]].values) >= 2
  /\ acc[query[1]].values # acc[query[2]].values
====
